---- MODULE Spec2Model ----
(***************************************************************************)
(* Model of the chatbot's conversation memory (src/chat_memory.py) and of  *)
(* the chat loop that drives it (src/interface.py).                        *)
(*                                                                         *)
(* A Python string is a sequence of one-character strings.  A Python value *)
(* handed to the memory is a record [kind, s]: kind "str" or "bytes" with  *)
(* the characters in s, or kind "None".                                    *)
(***************************************************************************)
EXTENDS Integers, Sequences, FiniteSets, TLC

VARIABLES
    constructed,   \* a ChatMemory object exists (its __init__ returned)
    max_turns,     \* ChatMemory.max_turns
    maxlen,        \* ChatMemory.buffer.maxlen
    buffer,        \* ChatMemory.buffer: the deque's items, oldest first
    err,           \* the exception the last call raised, or "none"
    lastOp,        \* the last call made
    lastArg,       \* its argument
    result,        \* what the last call returned
    pc,            \* main(): the statement the chat loop is at
    user_input,    \* main(): user_input
    prompt,        \* main(): prompt
    raw_output,    \* main(): raw_output
    bot_reply      \* main(): bot_reply

memVars == <<constructed, max_turns, maxlen, buffer, err, lastOp, lastArg, result>>
mainVars == <<pc, user_input, prompt, raw_output, bot_reply>>
vars == <<constructed, max_turns, maxlen, buffer, err, lastOp, lastArg, result,
          pc, user_input, prompt, raw_output, bot_reply>>

\* The largest max_turns a window is constructed with.
MaxTurns == 2

---------------------------------------------------------------------------
(* Values                                                                  *)

Str(s) == [kind |-> "str", s |-> s]
Bytes(s) == [kind |-> "bytes", s |-> s]
None == [kind |-> "None", s |-> <<>>]

\* The texts a caller passes to add_user / add_bot, per their signature.
Texts ==
    { Str(<<>>), Str(<<" ", "\n">>), Str(<<"a">>), Str(<<" ", "a", " ">>) }

\* What a caller that ignores the signature passes: texts, None and bytes.
UntypedValues ==
    { Str(<<" ", "a", " ">>), Str(<<"\n", "a", " ", "b", " ">>), None,
      Bytes(<<" ", "a", "\n">>) }

\* The system_prompt arguments of get_prompt_context.
SystemPrompts ==
    { None, Str(<<>>), Str(<<" ", " ">>), Str(<<" ", "s", "\n">>) }

---------------------------------------------------------------------------
(* str / bytes methods                                                     *)

\* The characters str.strip() and bytes.strip() remove.
IsSpace(c) == c \in {" ", "\n", "\t", "\r"}

RECURSIVE lstrip(_)
lstrip(s) ==
    IF s # <<>> /\ IsSpace(Head(s)) THEN lstrip(Tail(s)) ELSE s

RECURSIVE rstrip(_)
rstrip(s) ==
    IF s # <<>> /\ IsSpace(s[Len(s)]) THEN rstrip(SubSeq(s, 1, Len(s) - 1)) ELSE s

\* s.strip()
strip(s) == rstrip(lstrip(s))

\* hasattr(v, "strip"): str and bytes have the method, None has not.
HasStrip(v) == v.kind \in {"str", "bytes"}

\* v.strip() for a value that has the method: the same kind, stripped.
StripValue(v) == [kind |-> v.kind, s |-> strip(v.s)]

\* bool(v): None and the empty string are false.
Truthy(v) == v.kind # "None" /\ v.s # <<>>

RECURSIVE BytesEscape(_)
\* The body of repr(b"..."): a line break and a tab are written escaped.
BytesEscape(s) ==
    IF s = <<>> THEN <<>>
    ELSE LET c == Head(s)
             e == IF c = "\n" THEN <<"\\", "n">>
                  ELSE IF c = "\t" THEN <<"\\", "t">>
                  ELSE IF c = "\r" THEN <<"\\", "r">>
                  ELSE <<c>>
         IN  e \o BytesEscape(Tail(s))

\* f"{v}": a str as it is, bytes as their repr b'...'.
Format(v) ==
    IF v.kind = "str" THEN v.s
    ELSE IF v.kind = "bytes" THEN <<"b", "'">> \o BytesEscape(v.s) \o <<"'">>
    ELSE <<"N", "o", "n", "e">>

RECURSIVE join(_, _)
\* sep.join(lines)
join(sep, lines) ==
    IF lines = <<>> THEN <<>>
    ELSE IF Len(lines) = 1 THEN lines[1]
    ELSE lines[1] \o sep \o join(sep, Tail(lines))

---------------------------------------------------------------------------
(* collections.deque                                                       *)

\* A deque that ignores its maxlen: nothing is ever dropped.
deque_append_unbounded(items, ml, x) == Append(items, x)

\* A deque that drops its oldest item one append too early: already when
\* the new item fills it.
deque_append_early(items, ml, x) ==
    LET grown == Append(items, x)
    IN  IF Len(grown) >= ml THEN Tail(grown) ELSE grown

\* deque.append(x) on a deque with a maxlen: x goes in at the right, and an
\* item is dropped from the left when the deque is then over its maxlen.
deque_append(items, ml, x) ==
    LET grown == Append(items, x)
    IN  IF Len(grown) > ml THEN Tail(grown) ELSE grown

---------------------------------------------------------------------------
(* ChatMemory                                                              *)

\* ChatMemory(max_turns=n).  deque(maxlen=...) raises ValueError for a
\* negative maxlen, before max_turns is assigned; it accepts 0.
ChatMemory_init(n) ==
    /\ ~constructed
    /\ lastOp' = "init"
    /\ lastArg' = None
    /\ IF n * 2 < 0
       THEN /\ err' = "ValueError"
            /\ UNCHANGED <<constructed, max_turns, maxlen, buffer>>
       ELSE /\ err' = "none"
            /\ constructed' = TRUE
            /\ maxlen' = n * 2
            /\ max_turns' = n
            /\ buffer' = <<>>
    /\ result' = None

\* The labels of the two speakers exchanged.
TurnLine_swapped(turn) ==
    IF turn[1] = "user"
    THEN <<"B", "o", "t", ":", " ">> \o Format(turn[2])
    ELSE <<"U", "s", "e", "r", ":", " ">> \o Format(turn[2])

\* The line a turn is rendered as.
TurnLine(turn) ==
    IF turn[1] = "user"
    THEN <<"U", "s", "e", "r", ":", " ">> \o Format(turn[2])
    ELSE <<"B", "o", "t", ":", " ">> \o Format(turn[2])

\* self.buffer.append((role, text.strip())): AttributeError when text has
\* no strip method, raised before anything is appended.
add(role, text) ==
    /\ constructed
    /\ lastOp' = (IF role = "user" THEN "add_user" ELSE "add_bot")
    /\ lastArg' = text
    /\ IF HasStrip(text)
       THEN /\ buffer' = deque_append(buffer, maxlen, <<role, StripValue(text)>>)
            /\ err' = "none"
       ELSE /\ err' = "AttributeError"
            /\ UNCHANGED buffer
    /\ result' = None
    /\ UNCHANGED <<constructed, max_turns, maxlen>>

add_user(text) == add("user", text)

add_bot(text) == add("bot", text)

\* The lines get_prompt_context collects: the stripped system prompt when
\* the argument is truthy, then a line per item of the buffer.
PromptLines(buf, system_prompt) ==
    (IF Truthy(system_prompt) THEN <<strip(system_prompt.s)>> ELSE <<>>)
        \o [i \in 1..Len(buf) |-> TurnLine(buf[i])]

\* A rendering that takes the items out of the buffer as it reads them.
get_prompt_context_draining(system_prompt) ==
    /\ constructed
    /\ lastOp' = "get_prompt_context"
    /\ lastArg' = system_prompt
    /\ result' = Str(join(<<"\n">>, PromptLines(buffer, system_prompt)))
    /\ err' = "none"
    /\ buffer' = <<>>
    /\ UNCHANGED <<constructed, max_turns, maxlen>>

\* A rendering whose list of lines outlives the call: the lines of the
\* call before are still in it.
get_prompt_context_accumulating(system_prompt) ==
    /\ constructed
    /\ lastOp' = "get_prompt_context"
    /\ lastArg' = system_prompt
    /\ result' = Str(join(<<"\n">>,
                      (IF result.kind = "str" THEN <<result.s>> ELSE <<>>)
                          \o PromptLines(buffer, system_prompt)))
    /\ err' = "none"
    /\ UNCHANGED <<constructed, max_turns, maxlen, buffer>>

\* def get_prompt_context(self, system_prompt=None): lines 45-56.
get_prompt_context(system_prompt) ==
    /\ constructed
    /\ lastOp' = "get_prompt_context"
    /\ lastArg' = system_prompt
    /\ result' = Str(join(<<"\n">>, PromptLines(buffer, system_prompt)))
    /\ err' = "none"
    /\ UNCHANGED <<constructed, max_turns, maxlen, buffer>>

clear ==
    /\ constructed
    /\ lastOp' = "clear"
    /\ lastArg' = None
    /\ buffer' = <<>>
    /\ err' = "none"
    /\ result' = None
    /\ UNCHANGED <<constructed, max_turns, maxlen>>

---------------------------------------------------------------------------
(* A caller of the memory that keeps to the signatures.                    *)

Init ==
    /\ constructed = FALSE
    /\ max_turns = 0
    /\ maxlen = 0
    /\ buffer = <<>>
    /\ err = "none"
    /\ lastOp = "none"
    /\ lastArg = None
    /\ result = None
    /\ pc = "start"
    /\ user_input = <<>>
    /\ prompt = <<>>
    /\ raw_output = <<>>
    /\ bot_reply = <<>>

Construct == \E n \in -1..MaxTurns : ChatMemory_init(n) /\ UNCHANGED mainVars

AddUser == \E t \in Texts : add_user(t) /\ UNCHANGED mainVars

AddBot == \E t \in Texts : add_bot(t) /\ UNCHANGED mainVars

Render == \E sp \in SystemPrompts : get_prompt_context(sp) /\ UNCHANGED mainVars

Clear == clear /\ UNCHANGED mainVars

Next == Construct \/ AddUser \/ AddBot \/ Render \/ Clear

Spec == Init /\ [][Next]_vars

---------------------------------------------------------------------------
(* A caller that constructs the window with a positive capacity and        *)
(* ignores the signatures of add_user and add_bot.                         *)

ConstructPositive == \E n \in 1..MaxTurns : ChatMemory_init(n) /\ UNCHANGED mainVars

AddUserAny == \E v \in UntypedValues : add_user(v) /\ UNCHANGED mainVars

AddBotAny == \E v \in UntypedValues : add_bot(v) /\ UNCHANGED mainVars

UntypedNext == ConstructPositive \/ AddUserAny \/ AddBotAny \/ Render \/ Clear

UntypedSpec == Init /\ [][UntypedNext]_vars

---------------------------------------------------------------------------
(* main(): the chat loop                                                   *)

UpperLetters ==
    <<"A", "B", "C", "D", "E", "F", "G", "H", "I", "J", "K", "L", "M",
      "N", "O", "P", "Q", "R", "S", "T", "U", "V", "W", "X", "Y",
      "Z">>

LowerLetters ==
    <<"a", "b", "c", "d", "e", "f", "g", "h", "i", "j", "k", "l", "m",
      "n", "o", "p", "q", "r", "s", "t", "u", "v", "w", "x", "y",
      "z">>

\* c.lower() of one character.
LowerChar(c) ==
    IF \E i \in 1..Len(UpperLetters) : UpperLetters[i] = c
    THEN LowerLetters[CHOOSE i \in 1..Len(UpperLetters) : UpperLetters[i] = c]
    ELSE c

\* s.lower()
lower(s) == [i \in 1..Len(s) |-> LowerChar(s[i])]

\* s.startswith(p)
startswith(s, p) == Len(s) >= Len(p) /\ SubSeq(s, 1, Len(p)) = p

RECURSIVE SplitLinesFrom(_, _, _)
\* The lines of s after the lines in acc and the unfinished line cur.
SplitLinesFrom(s, cur, acc) ==
    IF s = <<>> THEN (IF cur = <<>> THEN acc ELSE Append(acc, cur))
    ELSE IF Head(s) = "\r" /\ Len(s) >= 2 /\ s[2] = "\n"
         THEN SplitLinesFrom(Tail(Tail(s)), <<>>, Append(acc, cur))
    ELSE IF Head(s) \in {"\n", "\r"}
         THEN SplitLinesFrom(Tail(s), <<>>, Append(acc, cur))
    ELSE SplitLinesFrom(Tail(s), Append(cur, Head(s)), acc)

\* s.splitlines(): the lines without their line breaks; a line break at
\* the end starts no further line, and the empty string has no line.
splitlines(s) == SplitLinesFrom(s, <<>>, <<>>)

\* The width main() passes to textwrap.fill.
FillWidth == 90

\* textwrap.fill(text, width) for a text that fits in one line of the
\* width: each whitespace character becomes a space and the whitespace at
\* the end of the line is dropped.  (A longer text is broken into several
\* lines; the replies of this model are shorter than the width.)
fill(text, width) ==
    LET munged == [i \in 1..Len(text) |-> IF IsSpace(text[i]) THEN " " ELSE text[i]]
    IN  IF Len(munged) <= width THEN rstrip(munged) ELSE munged

\* main(): system_prompt
system_prompt ==
    <<"Y", "o", "u", " ", "a", "r", "e", " ", "a", " ", "h", "e", "l",
      "p", "f", "u", "l", " ", "A", "I", " ", "a", "s", "s", "i", "s",
      "t", "a", "n", "t", ".", " ", "K", "e", "e", "p", " ", "y", "o",
      "u", "r", " ", "r", "e", "s", "p", "o", "n", "s", "e", "s", " ",
      "s", "h", "o", "r", "t", " ", "a", "n", "d", " ", "c", "l", "e",
      "a", "r", ".">>

\* The cue main() appends to the rendered context.
BotCue == <<"\n", "B", "o", "t", ":">>

\* The lines input() returns; EndOfInput stands for EOFError and
\* KeyboardInterrupt.
EndOfInput == <<"EOF">>

InputLines ==
    { <<>>, <<" ">>, <<"a">>, <<" ", "B", " ">>,
      <<"/", "e", "x", "i", "t">>, <<" ", "/", "E", "x", "i", "t">>,
      <<"/", "C", "L", "E", "A", "R", " ">>, EndOfInput }

\* What the generation service may return for a prompt: the prompt with a
\* continuation, or a text that does not start with the prompt.
Generated(p) ==
    { p, p \o <<" ", "o", "k">>, p \o <<" ", "o", "\n", "k", " ">>,
      <<>>, <<" ", "\n">>, <<"x">>, <<"x", "\n", " ", "y", " ">> }

\* Lines 14-32: the arguments are parsed and the memory is constructed.
main_start(n) ==
    /\ pc = "start"
    /\ ChatMemory_init(n)
    /\ pc' = (IF err' = "none" THEN "input" ELSE "crashed")
    /\ UNCHANGED <<user_input, prompt, raw_output, bot_reply>>

\* A loop that compares the commands as typed, without lower().
main_input_case_sensitive(line) ==
    /\ pc = "input"
    /\ IF line = EndOfInput
       THEN pc' = "done" /\ UNCHANGED user_input /\ UNCHANGED memVars
       ELSE /\ user_input' = strip(line)
            /\ IF user_input' = <<>>
               THEN pc' = "input" /\ UNCHANGED memVars
               ELSE IF user_input' = <<"/", "e", "x", "i", "t">>
               THEN pc' = "done" /\ UNCHANGED memVars
               ELSE IF user_input' = <<"/", "c", "l", "e", "a", "r">>
               THEN pc' = "input" /\ clear
               ELSE pc' = "add_user" /\ UNCHANGED memVars
    /\ UNCHANGED <<prompt, raw_output, bot_reply>>

\* Lines 36-54: a line is read and the commands are handled.
main_input(line) ==
    /\ pc = "input"
    /\ IF line = EndOfInput
       THEN pc' = "done" /\ UNCHANGED user_input /\ UNCHANGED memVars
       ELSE /\ user_input' = strip(line)
            /\ IF user_input' = <<>>
               THEN pc' = "input" /\ UNCHANGED memVars
               ELSE IF lower(user_input') = <<"/", "e", "x", "i", "t">>
               THEN pc' = "done" /\ UNCHANGED memVars
               ELSE IF lower(user_input') = <<"/", "c", "l", "e", "a", "r">>
               THEN pc' = "input" /\ clear
               ELSE pc' = "add_user" /\ UNCHANGED memVars
    /\ UNCHANGED <<prompt, raw_output, bot_reply>>

\* Line 57: memory.add_user(user_input)
main_add_user ==
    /\ pc = "add_user"
    /\ add_user(Str(user_input))
    /\ pc' = (IF err' = "none" THEN "render" ELSE "crashed")
    /\ UNCHANGED <<user_input, prompt, raw_output, bot_reply>>

\* A loop that sends the rendered context without the cue.
main_render_without_cue ==
    /\ pc = "render"
    /\ get_prompt_context(Str(system_prompt))
    /\ prompt' = result'.s
    /\ pc' = "generate"
    /\ UNCHANGED <<user_input, raw_output, bot_reply>>

\* Lines 60-61: the prompt is the rendered context and the cue.
main_render ==
    /\ pc = "render"
    /\ get_prompt_context(Str(system_prompt))
    /\ prompt' = result'.s \o BotCue
    /\ pc' = "generate"
    /\ UNCHANGED <<user_input, raw_output, bot_reply>>

\* Lines 64-69: model.generate(prompt, ...) returns a text.
main_generate(text) ==
    /\ pc = "generate"
    /\ raw_output' = text
    /\ pc' = "extract"
    /\ UNCHANGED memVars
    /\ UNCHANGED <<user_input, prompt, bot_reply>>

\* Lines 72-75: the reply is what follows the prompt, or the last line of
\* the stripped output; [-1] of an empty list raises IndexError, which
\* nothing catches.
main_extract ==
    /\ pc = "extract"
    /\ IF startswith(raw_output, prompt)
       THEN /\ bot_reply' = strip(SubSeq(raw_output, Len(prompt) + 1, Len(raw_output)))
            /\ pc' = "fill"
            /\ UNCHANGED err
       ELSE LET lines == splitlines(strip(raw_output))
            IN  IF lines = <<>>
                THEN pc' = "crashed" /\ err' = "IndexError" /\ UNCHANGED bot_reply
                ELSE /\ bot_reply' = lines[Len(lines)]
                     /\ pc' = "fill"
                     /\ UNCHANGED err
    /\ UNCHANGED <<constructed, max_turns, maxlen, buffer, lastOp, lastArg, result>>
    /\ UNCHANGED <<user_input, prompt, raw_output>>

\* Lines 78-80: the reply is reformatted and printed.
main_fill ==
    /\ pc = "fill"
    /\ bot_reply' = fill(bot_reply, FillWidth)
    /\ pc' = "add_bot"
    /\ UNCHANGED memVars
    /\ UNCHANGED <<user_input, prompt, raw_output>>

\* A loop that keeps only the replies that are not empty.
main_add_bot_unless_empty ==
    /\ pc = "add_bot"
    /\ IF bot_reply = <<>>
       THEN UNCHANGED memVars
       ELSE add_bot(Str(bot_reply))
    /\ pc' = (IF err' = "none" THEN "input" ELSE "crashed")
    /\ UNCHANGED <<user_input, prompt, raw_output, bot_reply>>

\* Line 83: memory.add_bot(bot_reply)
main_add_bot ==
    /\ pc = "add_bot"
    /\ add_bot(Str(bot_reply))
    /\ pc' = (IF err' = "none" THEN "input" ELSE "crashed")
    /\ UNCHANGED <<user_input, prompt, raw_output, bot_reply>>

MainStart == \E n \in -1..MaxTurns : main_start(n)

MainInput == \E line \in InputLines : main_input(line)

MainGenerate == \E text \in Generated(prompt) : main_generate(text)

MainNext ==
    \/ MainStart
    \/ MainInput
    \/ main_add_user
    \/ main_render
    \/ MainGenerate
    \/ main_extract
    \/ main_fill
    \/ main_add_bot

MainSpec == Init /\ [][MainNext]_vars

---------------------------------------------------------------------------
(* Properties of the memory                                                *)

AddOps == {"add_user", "add_bot"}

\* The role a call of add_user / add_bot stores its turn under.
RoleOf(op) == IF op = "add_user" THEN "user" ELSE "bot"

\* The text t without the whitespace around it, stated without strip: the
\* part of t from its first to its last character that is not whitespace.
Trimmed(t) ==
    LET solid == {i \in 1..Len(t) : ~IsSpace(t[i])}
    IN  IF solid = {} THEN <<>>
        ELSE SubSeq(t, CHOOSE i \in solid : \A j \in solid : i <= j,
                       CHOOSE i \in solid : \A j \in solid : i >= j)

\* C1: after every call, in any sequence of calls on a window constructed
\* with capacity N, the number of stored turns is at most 2*N.
C1_CapacityBound == constructed => Len(buffer) <= 2 * max_turns

\* C1 happens: a window of capacity 2 is full after an add.
C1_Witness ==
    /\ constructed /\ max_turns = 2 /\ Len(buffer) = 4
    /\ lastOp = "add_bot" /\ buffer[1][1] = "bot"

\* C2: an add on a history that holds exactly 2*capacity turns removes the
\* oldest turn, appends the new turn at the end and leaves the surviving
\* turns as they were, in their order.
C2_FifoEviction ==
    [][(/\ lastOp' \in AddOps /\ err' = "none"
        /\ lastArg'.kind = "str"
        /\ Len(buffer) = 2 * max_turns)
       => /\ buffer' # <<>>
          /\ buffer'[Len(buffer')] = <<RoleOf(lastOp'), Str(Trimmed(lastArg'.s))>>
          /\ SubSeq(buffer', 1, Len(buffer') - 1) = SubSeq(buffer, 2, Len(buffer))]_vars

\* A turn of the history, as the claims write its line: the speaker's
\* label and the stored text.
ClaimedLine(turn) ==
    (IF turn[1] = "user" THEN <<"U", "s", "e", "r", ":", " ">>
     ELSE <<"B", "o", "t", ":", " ">>) \o turn[2].s

RECURSIVE JoinedLength(_)
\* The length of the lines joined by single newlines.
JoinedLength(lines) ==
    IF lines = <<>> THEN 0
    ELSE IF Len(lines) = 1 THEN Len(lines[1])
    ELSE Len(lines[1]) + 1 + JoinedLength(Tail(lines))

C4_SystemLine ==
    lastOp = "get_prompt_context" =>
        LET given == lastArg.kind = "str" /\ Trimmed(lastArg.s) # <<>>
            turnLines == [i \in 1..Len(buffer) |-> ClaimedLine(buffer[i])]
        IN  result.s = join(<<"\n">>,
                (IF given THEN <<Trimmed(lastArg.s)>> ELSE <<>>) \o turnLines)

\* C5: clear() empties the history and keeps the capacity, and an
\* add_user(x) that follows it leaves exactly the history [user x].
C5_ClearThenAdd ==
    [][/\ lastOp' = "clear" =>
            buffer' = <<>> /\ max_turns' = max_turns /\ maxlen' = maxlen
       /\ (lastOp = "clear" /\ lastOp' = "add_user" /\ lastArg'.kind = "str") =>
            buffer' = << <<"user", Str(Trimmed(lastArg'.s))>> >>]_vars

\* C6: add_user and add_bot accept every text and store it without the
\* whitespace around it, an empty or whitespace-only text as a turn with
\* empty text.
C6_StoresTrimmed ==
    [][(lastOp' \in AddOps /\ lastArg'.kind = "str")
       => /\ err' = "none"
          /\ buffer' # <<>>
          /\ buffer'[Len(buffer')] = <<RoleOf(lastOp'), Str(Trimmed(lastArg'.s))>>]_vars

\* C7: no window exists with a capacity that is zero or negative: its
\* construction fails.
C7_PositiveCapacity == constructed => max_turns >= 1

\* C8: add_user or add_bot with a value that is no string fails with an
\* error and leaves the history as it was.
C8_RejectsNonString ==
    [][(lastOp' \in AddOps /\ lastArg'.kind # "str")
       => err' # "none" /\ buffer' = buffer]_vars

\* C9: get_prompt_context changes neither the history nor the capacity.
C9_RenderIsPure ==
    [][lastOp' = "get_prompt_context"
       => buffer' = buffer /\ max_turns' = max_turns /\ maxlen' = maxlen]_vars

\* C9 happens: a full history of both speakers has been rendered with a
\* system prompt.
C9_Witness ==
    /\ lastOp = "get_prompt_context" /\ Truthy(lastArg)
    /\ max_turns >= 1 /\ Len(buffer) = 2 * max_turns
    /\ buffer[1][1] # buffer[2][1]

---------------------------------------------------------------------------
(* Properties of the chat loop                                             *)

\* C10: for every text the generation service returns, main() obtains a
\* reply without failing: the trimmed rest after the prompt when the text
\* starts with the prompt, the last line of the text otherwise.
C10_ReplyForEveryOutput ==
    /\ ~(pc = "crashed" /\ err = "IndexError")
    /\ pc = "fill" =>
         IF startswith(raw_output, prompt)
         THEN bot_reply = Trimmed(SubSeq(raw_output, Len(prompt) + 1, Len(raw_output)))
         ELSE LET lines == splitlines(Trimmed(raw_output))
              IN  lines # <<>> /\ bot_reply = lines[Len(lines)]

\* C11: for a line that is a message, main() appends it as a user turn,
\* renders the prompt, calls the generation service, extracts the reply
\* and appends it as an assistant turn, in this order, and only then reads
\* the next line.
C11_StepsInOrder ==
    [][/\ pc' = "add_user" => pc = "input"
       /\ pc = "add_user" =>
            pc' = "render" /\ lastOp' = "add_user" /\ lastArg' = Str(user_input)
       /\ pc = "render" =>
            pc' = "generate" /\ lastOp' = "get_prompt_context" /\ buffer' = buffer
       /\ pc = "generate" => pc' = "extract" /\ UNCHANGED memVars
       /\ pc = "extract" => pc' = "fill" /\ UNCHANGED memVars
       /\ pc = "fill" => pc' = "add_bot" /\ UNCHANGED memVars
       /\ pc = "add_bot" =>
            pc' = "input" /\ lastOp' = "add_bot" /\ lastArg' = Str(bot_reply)]_vars

C13_AppendBelowCapacity ==
    [][(/\ lastOp' \in AddOps
        /\ lastArg'.kind = "str"
        /\ Len(buffer) < 2 * max_turns)
       => /\ err' = "none"
          /\ Len(buffer') = Len(buffer) + 1
          /\ buffer'[Len(buffer')] = <<RoleOf(lastOp'), Str(Trimmed(lastArg'.s))>>
          /\ SubSeq(buffer', 1, Len(buffer)) = buffer]_vars

\* C13 happens: a window of capacity 2 holds three turns, the last two of
\* them user turns, the second just added.
C13_Witness ==
    /\ constructed /\ max_turns = 2 /\ Len(buffer) = 3
    /\ lastOp = "add_user"
    /\ buffer[1][1] = "bot" /\ buffer[2][1] = "user" /\ buffer[3][1] = "user"
    /\ buffer[3][2] # buffer[2][2]

\* C14: in a session started with max_turns >= 1, whenever main() is about
\* to read a line the history is made of complete pairs: its length is
\* even and its turns alternate user, bot, starting with a user turn.
C14_CompletePairs ==
    (pc = "input" /\ max_turns >= 1) =>
        /\ Len(buffer) % 2 = 0
        /\ \A i \in 1..Len(buffer) :
             buffer[i][1] = (IF i % 2 = 1 THEN "user" ELSE "bot")

\* C14 happens: a session of capacity 1 has answered a second message, so
\* the first pair has been evicted (the prompt of the second message began
\* with the first reply), and is about to read the next line.
C14_Witness ==
    /\ pc = "input" /\ max_turns = 1 /\ Len(buffer) = 2
    /\ lastOp = "add_bot"
    /\ startswith(prompt, system_prompt \o <<"\n", "B", "o", "t", ":", " ">>)

\* C15: in a session started with max_turns >= 1, whenever the generation
\* service is called the last turn of the history is a user turn with the
\* current input, and the prompt is the system line, a line per turn of
\* the history, and "Bot:" on a line of its own.
C15_PromptAtGenerate ==
    (pc = "generate" /\ max_turns >= 1) =>
        /\ buffer # <<>>
        /\ buffer[Len(buffer)] = <<"user", Str(user_input)>>
        /\ user_input # <<>>
        /\ ~IsSpace(user_input[1]) /\ ~IsSpace(user_input[Len(user_input)])
        /\ prompt = join(<<"\n">>,
                         <<system_prompt>>
                             \o [i \in 1..Len(buffer) |-> ClaimedLine(buffer[i])]
                             \o << <<"B", "o", "t", ":">> >>)

\* C15 happens: a session of capacity 1 is about to call the service for
\* its second message; the first user turn has been evicted and the
\* history is the first reply and the current message.
C15_Witness ==
    /\ pc = "generate" /\ max_turns = 1 /\ Len(buffer) = 2
    /\ buffer[1][1] = "bot"
    /\ buffer[2] = <<"user", Str(<<"B">>)>>

\* The text s is the word w (given in lower case) in some letter case.
IsCommand(s, w, W) ==
    /\ Len(s) = Len(w)
    /\ \A i \in 1..Len(w) : s[i] \in {w[i], W[i]}

IsExit(s) == IsCommand(s, <<"/", "e", "x", "i", "t">>, <<"/", "E", "X", "I", "T">>)

IsClear(s) ==
    IsCommand(s, <<"/", "c", "l", "e", "a", "r">>, <<"/", "C", "L", "E", "A", "R">>)

\* C16: an empty or whitespace-only line, "/exit" and "/clear" in any
\* letter case add no turn and call no generation: the empty line changes
\* nothing, "/clear" empties the history and the loop reads on, and after
\* "/exit" or the end of the input the loop has ended and calls the
\* memory no more.
C16_CommandsAddNothing ==
    [][/\ pc = "input" =>
            /\ pc' \in {"input", "done", "add_user"}
            /\ pc' = "add_user" =>
                 /\ user_input' # <<>> /\ ~IsExit(user_input') /\ ~IsClear(user_input')
                 /\ UNCHANGED memVars
            /\ pc' = "done" => UNCHANGED memVars
            /\ pc' = "input" =>
                 \/ user_input' = <<>> /\ UNCHANGED memVars
                 \/ /\ IsClear(user_input') /\ lastOp' = "clear" /\ buffer' = <<>>
                    /\ max_turns' = max_turns /\ maxlen' = maxlen
            /\ (IsExit(user_input') /\ user_input' # user_input) => pc' = "done"
       /\ pc = "done" => UNCHANGED vars]_vars

\* C16 happens: "/CLEAR" has emptied the history of a conversation (a
\* prompt has been sent before) and the loop is about to read on.
C16_Witness ==
    /\ pc = "input" /\ lastOp = "clear" /\ buffer = <<>>
    /\ user_input = <<"/", "C", "L", "E", "A", "R">>
    /\ prompt # <<>>

====
